---- MODULE Spec2Model ----
(***************************************************************************)
(* A model of the gradely backend: the roster importer                     *)
(* (UploadStudentsView.post), the student endpoint (StudentViewSet), the   *)
(* roster actions of a classroom (copy_list, remove_student), the bulk     *)
(* result upsert (QuizViewSet.save_results), the statistics cache of a     *)
(* quiz (Quiz.update_statistics) and the quiz detail                       *)
(* (QuizDetailSerializer.get_results, get_item_analysis).                  *)
(*                                                                         *)
(* Text is modelled as sequences of one-character strings, so that         *)
(* str.strip, str.title, str.startswith, str.split, int() and the          *)
(* f"{n:06d}" format are computed the way the code computes them.          *)
(* Scores are DecimalField(5, 2) values, held as integers in hundredths.   *)
(***************************************************************************)
EXTENDS Integers, Sequences, FiniteSets, TLC

\* ------------------------------------------------------------- bounds
\* Rows of an uploaded file.
MaxRows == 2
\* Student rows ever inserted (the primary-key sequence of Student).
MaxPk == 2
\* Entries of one save_results batch.
MaxBatch == 2
\* QuizResult rows ever inserted (the primary-key sequence of QuizResult).
MaxRid == 2

\* ------------------------------------------------------------- text
\* The characters of the model, in code-point order.
Alphabet == <<" ", "-", "0", "1", "2", "3", "4", "5", "6", "7", "8", "9",
              "A", "B", "N", "a", "b", "n">>

Code(c) == CHOOSE i \in 1..Len(Alphabet) : Alphabet[i] = c

Digits == <<"0", "1", "2", "3", "4", "5", "6", "7", "8", "9">>

IsDigit(c) == \E i \in 1..10 : Digits[i] = c

DigitValue(c) == (CHOOSE i \in 1..10 : Digits[i] = c) - 1

Lowers == <<"a", "b", "n">>

Uppers == <<"A", "B", "N">>

IsLower(c) == \E i \in 1..Len(Lowers) : Lowers[i] = c

IsUpper(c) == \E i \in 1..Len(Uppers) : Uppers[i] = c

ToUpper(c) == IF IsLower(c) THEN Uppers[CHOOSE i \in 1..Len(Lowers) : Lowers[i] = c] ELSE c

ToLower(c) == IF IsUpper(c) THEN Lowers[CHOOSE i \in 1..Len(Uppers) : Uppers[i] = c] ELSE c

IsSpace(c) == c = " "

\* str.strip(): leading and trailing whitespace removed.
RECURSIVE LStrip(_)
LStrip(s) == IF s # <<>> /\ IsSpace(Head(s)) THEN LStrip(Tail(s)) ELSE s

RECURSIVE RStrip(_)
RStrip(s) ==
    IF s # <<>> /\ IsSpace(s[Len(s)]) THEN RStrip(SubSeq(s, 1, Len(s) - 1)) ELSE s

Strip(s) == RStrip(LStrip(s))

\* str.title(): a cased character is upper-cased when the character before
\* it is not cased, and lower-cased when it is.
Title(s) ==
    [i \in 1..Len(s) |->
        LET prevCased == i > 1 /\ (IsLower(s[i - 1]) \/ IsUpper(s[i - 1]))
        IN  IF prevCased THEN ToLower(s[i]) ELSE ToUpper(s[i])]

\* A cell pandas read as missing (float NaN).
NaN == <<"NaN">>

\* str(value): the text of a cell; str(float('nan')) is "nan".
Str(v) == IF v = NaN THEN <<"n", "a", "n">> ELSE v

\* name = str(row['name']).strip().title()
Normalize(v) == Title(Strip(Str(v)))

\* a.startswith(p)
StartsWith(a, p) == Len(a) >= Len(p) /\ SubSeq(a, 1, Len(p)) = p

\* String order of the database (ORDER BY on a CharField): a < b.
RECURSIVE StrLess(_, _)
StrLess(a, b) ==
    IF b = <<>> THEN FALSE
    ELSE IF a = <<>> THEN TRUE
    ELSE IF Head(a) # Head(b) THEN Code(Head(a)) < Code(Head(b))
    ELSE StrLess(Tail(a), Tail(b))

\* s.split('-'): the list of the parts between the dashes.
RECURSIVE Split(_, _)
Split(s, cur) ==
    IF s = <<>> THEN <<cur>>
    ELSE IF Head(s) = "-" THEN <<cur>> \o Split(Tail(s), <<>>)
    ELSE Split(Tail(s), Append(cur, Head(s)))

\* int(text) raises ValueError on text that is no decimal numeral.
IsNumeral(s) == s # <<>> /\ \A i \in 1..Len(s) : IsDigit(s[i])

RECURSIVE ParseInt(_)
ParseInt(s) ==
    IF s = <<>> THEN 0 ELSE 10 * ParseInt(SubSeq(s, 1, Len(s) - 1)) + DigitValue(s[Len(s)])

\* The decimal numeral of n >= 0.
RECURSIVE Numeral(_)
Numeral(n) ==
    IF n < 10 THEN <<Digits[n + 1]>> ELSE Append(Numeral(n \div 10), Digits[(n % 10) + 1])

\* The width of the sequence part of a generated identifier.
PadWidth == 6

RECURSIVE ZeroPad(_, _)
ZeroPad(s, w) == IF Len(s) >= w THEN s ELSE ZeroPad(<<"0">> \o s, w)

\* f"{year_prefix}-{current_seq:06d}"
FormatId(year_prefix, current_seq) ==
    year_prefix \o <<"-">> \o ZeroPad(Numeral(current_seq), PadWidth)

\* The element of a one-element set: the value of an expression, computed once.
The(S) == CHOOSE x \in S : TRUE

\* ------------------------------------------------------------- data
\* The two-digit year of datetime.now().
YearPrefix == <<"2", "6">>

Users == {"t1", "t2"}

\* Classroom rows (id -> teacher); classrooms are not created or deleted here.
Classrooms == {1, 2}

ClassroomTeacher == [c \in Classrooms |-> "t1"]

\* Classroom ids an upload may name (3 is no classroom).
ClassroomIds == {1, 3}

\* Classroom ids a copy_list or remove_student request may name.
ClassroomPks == {1, 2, 3}

\* source_classroom_id of a copy_list request (0: not given).
SourceIds == {0, 1, 2}

\* Quiz rows (id -> classroom); quizzes are not created or deleted here.
Quizzes == {1}

QuizClassroom == [q \in Quizzes |-> 1]

\* Cells of the name column of an uploaded file.
RawNames == { <<"a", " ", "b">>, <<"A", " ", "B", " ">>, <<"b", " ", "a">>, NaN }

\* Student rows posted to the student endpoint.
EndpointIds == { <<"2", "6", "-", "2">>, <<"2", "5", "-", "0", "0", "0", "0", "0", "4">> }

EndpointNames == { <<"A", " ", "B">> }

\* The file names of an upload, by their extension.
Extensions == {".csv", ".pdf"}

RECURSIVE SeqsUpTo(_, _)
SeqsUpTo(S, n) ==
    IF n = 0 THEN {<<>>}
    ELSE LET shorter == SeqsUpTo(S, n - 1)
         IN  shorter \cup {Append(s, x) : s \in {t \in shorter : Len(t) = n - 1}, x \in S}

Files == SeqsUpTo(RawNames, MaxRows)

VARIABLES
    students,   \* the Student table: records [id, student_id, name]
    nextPk,     \* the next primary key of Student
    roster,     \* Classroom.students: classroom id -> set of Student ids
    results,    \* the QuizResult table: records [id, quiz, student, score_obtained, student_answers]
    nextRid,    \* the next primary key of QuizResult
    stats,      \* the statistics cache of each Quiz row
    last,       \* the last request served: its inputs, its response, the handler's locals
    imports,    \* the uploads in progress, step by step: worker -> its locals
    saves       \* the save_results calls in progress, step by step: worker -> its locals

vars == <<students, nextPk, roster, results, nextRid, stats, last, imports, saves>>

\* ------------------------------------------------------------- statistics
RECURSIVE SumOf(_)
SumOf(S) == IF S = {} THEN 0 ELSE LET r == CHOOSE x \in S : TRUE
                                  IN  r.score_obtained + SumOf(S \ {r})

MaxOf(S) == CHOOSE m \in {r.score_obtained : r \in S} : \A r \in S : r.score_obtained <= m

MinOf(S) == CHOOSE m \in {r.score_obtained : r \in S} : \A r \in S : m <= r.score_obtained

\* self.results.all()
ResultsOf(rs, q) == {r \in rs : r.quiz = q}

\* A recomputation that stores the highest score as min_score too.
ComputeStatisticsMinIsMax(rs) ==
    IF rs # {}
    THEN [attendees_count |-> Cardinality(rs),
          max_score |-> MaxOf(rs),
          min_score |-> MaxOf(rs),
          mean_score |-> [num |-> SumOf(rs), den |-> Cardinality(rs)]]
    ELSE [attendees_count |-> 0,
          max_score |-> 0,
          min_score |-> 0,
          mean_score |-> [num |-> 0, den |-> 1]]

\* The fields update_statistics assigns, from the result rows of the quiz.
\* mean_score is the quotient sum / len, kept exact as [num, den].
ComputeStatistics(rs) ==
    IF rs # {}
    THEN [attendees_count |-> Cardinality(rs),
          max_score |-> MaxOf(rs),
          min_score |-> MinOf(rs),
          mean_score |-> [num |-> SumOf(rs), den |-> Cardinality(rs)]]
    ELSE [attendees_count |-> 0,
          max_score |-> 0,
          min_score |-> 0,
          mean_score |-> [num |-> 0, den |-> 1]]

\* Quiz.update_statistics followed by self.save(): the cache after the call.
update_statistics(st, rs, q) == [st EXCEPT ![q] = ComputeStatistics(ResultsOf(rs, q))]

\* ------------------------------------------------------------- workers
\* The request workers that serve uploads at the same time.
Importers == {1, 2}

\* A worker that serves no upload.
Idle ==
    [pc |-> "idle", rows |-> <<>>, i |-> 0, start_seq |-> 0, current_seq |-> 0,
     students_to_create |-> <<>>, pending |-> {}, inserted |-> {}]

\* The request workers that serve save_results calls at the same time.
Savers == {1, 2}

\* A worker that serves no save_results call.
SaveIdle ==
    [pc |-> "idle", quiz |-> 0, results_data |-> <<>>, i |-> 0, saved_count |-> 0,
     errors |-> <<>>, scores |-> {}, stat_calls |-> 0]

\* ------------------------------------------------------------- initial state
\* The field defaults of a Quiz row (models.py 94-97).
DefaultStats ==
    [attendees_count |-> 0, max_score |-> 0, min_score |-> 0,
     mean_score |-> [num |-> 0, den |-> 1]]

Init ==
    /\ students = {}
    /\ nextPk = 1
    /\ roster = [c \in Classrooms |-> {}]
    /\ results = {}
    /\ nextRid = 1
    /\ stats = [q \in Quizzes |-> DefaultStats]
    /\ last = [request |-> [op |-> "none"], status |-> 0]
    /\ imports = [p \in Importers |-> Idle]
    /\ saves = [p \in Savers |-> SaveIdle]

\* ------------------------------------------------------------- student endpoint
\* POST /students/ (ModelViewSet.create): the serializer's unique validator
\* rejects a student_id already in the table.
StudentCreate(student_id, name) ==
    /\ nextPk <= MaxPk
    /\ IF \E s \in students : s.student_id = student_id
       THEN /\ UNCHANGED <<imports, saves, students, nextPk>>
            /\ last' = [request |-> [op |-> "student_create", student_id |-> student_id, name |-> name],
                        status |-> 400]
       ELSE /\ students' = students \cup
                   {[id |-> nextPk, student_id |-> student_id, name |-> name]}
            /\ nextPk' = nextPk + 1
            /\ last' = [request |-> [op |-> "student_create", student_id |-> student_id, name |-> name],
                        status |-> 201]
    /\ UNCHANGED <<imports, saves, roster, results, nextRid, stats>>

\* DELETE /students/{id}/ (ModelViewSet.destroy): the row is deleted, and with
\* it the rows that reference it: its QuizResult rows (on_delete=CASCADE) and
\* its roster memberships. No handler of Quiz runs.
StudentDestroy(pk) ==
    /\ \E s \in students : s.id = pk
    /\ students' = {s \in students : s.id # pk}
    /\ roster' = [c \in Classrooms |-> roster[c] \ {pk}]
    /\ results' = {r \in results : r.student # pk}
    /\ last' = [request |-> [op |-> "student_destroy", id |-> pk], status |-> 204]
    /\ UNCHANGED <<imports, saves, nextPk, nextRid, stats>>

\* ------------------------------------------------------------- roster import
\* Student.objects.filter(student_id__startswith=f"{year_prefix}-")
\*     .order_by('-student_id').first(): the row whose student_id is last in
\* string order, as a set of at most one row.
LastStudent(table, year_prefix) ==
    LET with == {s \in table : StartsWith(s.student_id, year_prefix \o <<"-">>)}
    IN  {s \in with : \A t \in with : t = s \/ StrLess(t.student_id, s.student_id)}

\* The sequence number the import starts from (views.py 229-237):
\* [error |-> TRUE] when int() raises.
StartSeq(table, year_prefix) ==
    LET found == LastStudent(table, year_prefix)
    IN  IF found = {} THEN [error |-> FALSE, current_seq |-> 1]
        ELSE LET last_student == CHOOSE s \in found : TRUE
                 parts == Split(last_student.student_id, <<>>)
             IN  IF IsNumeral(parts[2])
                 THEN [error |-> FALSE, current_seq |-> ParseInt(parts[2]) + 1]
                 ELSE [error |-> TRUE, current_seq |-> 0]

\* Student.objects.get_or_create(name=name, defaults={'student_id': new_student_id})
\* on the table `table` with next primary key `pk`:
\*   one row of that name: that row, created = False;
\*   several rows: get() raises MultipleObjectsReturned;
\*   no row: the row is inserted, unless its student_id is taken (unique=True):
\*   then the insert raises IntegrityError, the second get() finds nothing and
\*   the error is raised again.
get_or_create(table, pk, name, new_student_id) ==
    LET same == {s \in table : s.name = name}
    IN  IF Cardinality(same) = 1
        THEN [error |-> FALSE, created |-> FALSE, obj |-> (CHOOSE s \in same : TRUE).id,
              table |-> table, pk |-> pk]
        ELSE IF Cardinality(same) > 1
        THEN [error |-> TRUE, created |-> FALSE, obj |-> 0, table |-> table, pk |-> pk]
        ELSE IF \E s \in table : s.student_id = new_student_id
        THEN [error |-> TRUE, created |-> FALSE, obj |-> 0, table |-> table, pk |-> pk]
        ELSE [error |-> FALSE, created |-> TRUE, obj |-> pk,
              table |-> table \cup {[id |-> pk, student_id |-> new_student_id, name |-> name]},
              pk |-> pk + 1]

\* A counter that advances on every row, created or not.
NextSeqAlways(current_seq, created) == current_seq + 1

\* if created: current_seq += 1
NextSeq(current_seq, created) == IF created THEN current_seq + 1 ELSE current_seq

\* One pass of the loop over df.iterrows() (views.py 243-256) on the cell
\* `cell`. `st` holds the table inside the transaction and the handler's locals.
ImportRow(st, cell, year_prefix) ==
    LET name == Normalize(cell)
        new_student_id == FormatId(year_prefix, st.current_seq)
    IN  The({ IF got.error THEN [st EXCEPT !.error = TRUE]
              ELSE [error |-> FALSE,
                    table |-> got.table,
                    pk |-> got.pk,
                    current_seq |-> NextSeq(st.current_seq, got.created),
                    students_to_create |-> Append(st.students_to_create, got.obj),
                    created |-> IF got.created THEN Append(st.created, got.obj)
                                ELSE st.created]
              : got \in {get_or_create(st.table, st.pk, name, new_student_id)} })

\* The loop over df.iterrows() (views.py 242), from row i on; an exception
\* ends it.
RECURSIVE ImportRows(_, _, _, _)
ImportRows(rows, i, year_prefix, st) ==
    IF i > Len(rows) \/ st.error THEN st
    ELSE The({ ImportRows(rows, i + 1, year_prefix, after)
               : after \in {ImportRow(st, rows[i], year_prefix)} })

\* The body of `with transaction.atomic()` (views.py 228-259) on the table.
ImportTransaction(table, pk, year_prefix, rows) ==
    LET start == StartSeq(table, year_prefix)
    IN  IF start.error
        THEN [error |-> TRUE, table |-> table, pk |-> pk, current_seq |-> 0,
              start_seq |-> 0, students_to_create |-> <<>>, created |-> <<>>]
        ELSE LET done == The({ImportRows(rows, 1, year_prefix,
                            [error |-> FALSE, table |-> table, pk |-> pk,
                             current_seq |-> start.current_seq,
                             students_to_create |-> <<>>, created |-> <<>>])})
             IN  [error |-> done.error, table |-> done.table, pk |-> done.pk,
                  current_seq |-> done.current_seq, start_seq |-> start.current_seq,
                  students_to_create |-> done.students_to_create,
                  created |-> done.created]

\* An atomic block that keeps the inserts of a body that raised.
atomic_without_rollback(table, t) == t.table

\* The exit of `with transaction.atomic()` (views.py 228): the Student table
\* after the block whose body ended as `t`, entered on `table`. An exception
\* that leaves the block rolls its inserts back.
atomic(table, t) == IF t.error THEN table ELSE t.table

\* Classroom.objects.get(id=classroom_id, teacher=request.user) finds a row.
OwnClassroom(user, classroom_id) ==
    classroom_id \in Classrooms /\ ClassroomTeacher[classroom_id] = user

\* StudentUploadSerializer.validate_file
ValidFile(ext) == ext \in {".xlsx", ".xls", ".csv"}

\* POST /classrooms/{classroom_id}/upload-students/ (UploadStudentsView.post).
\* A failure inside the atomic block rolls the block's inserts back.
UploadStudents(user, classroom_id, ext, rows) ==
    LET received == [op |-> "upload", user |-> user, classroom_id |-> classroom_id,
                     ext |-> ext]
        \* the rows are read (pd.read_csv) once the classroom is found
        request == [op |-> "upload", user |-> user, classroom_id |-> classroom_id,
                    ext |-> ext, rows |-> rows]
    IN  IF ~ValidFile(ext)
        THEN /\ last' = [request |-> received, status |-> 400, reason |-> "serializer"]
             /\ UNCHANGED <<imports, saves, students, nextPk, roster, results, nextRid, stats>>
        ELSE IF ~OwnClassroom(user, classroom_id)
        THEN /\ last' = [request |-> received, status |-> 404, reason |-> "classroom"]
             /\ UNCHANGED <<imports, saves, students, nextPk, roster, results, nextRid, stats>>
        ELSE \E t \in {ImportTransaction(students, nextPk, YearPrefix, rows)} :
                 IF t.error
                 THEN /\ last' = [request |-> request, status |-> 400, reason |-> "exception"]
                      /\ students' = atomic(students, t)
                      /\ UNCHANGED <<imports, saves, nextPk, roster, results, nextRid, stats>>
                 ELSE /\ t.pk <= MaxPk + 1
                      /\ students' = atomic(students, t)
                      /\ nextPk' = t.pk
                      /\ roster' = [roster EXCEPT ![classroom_id] =
                                        @ \cup {t.students_to_create[i] :
                                                  i \in 1..Len(t.students_to_create)}]
                      /\ last' = [request |-> request, status |-> 200, reason |-> "ok",
                                  start_seq |-> t.start_seq,
                                  current_seq |-> t.current_seq,
                                  students_to_create |-> t.students_to_create,
                                  created |-> t.created]
                      /\ UNCHANGED <<imports, saves, results, nextRid, stats>>

\* ------------------------------------------------------------- save_results
\* A missing or empty student_id of an entry (item.get('student_id') falsy).
Absent == <<>>

\* The JSON values of the 'correct' key of a question's record: the booleans,
\* the string "true", and no key at all (details.get('correct') is None).
JTrue == "true"

JFalse == "false"

JStringTrue == "'true'"

JMissing == "missing"

\* The entries of a request: {student_id, score, student_answers}.
Entries ==
    { [student_id |-> <<"2", "6", "-", "2">>, score |-> 150, student_answers |-> {}],
      [student_id |-> <<"2", "6", "-", "2">>, score |-> 400,
       student_answers |-> {[q |-> <<"1">>, correct |-> JTrue]}],
      [student_id |-> <<"2", "5", "-", "0", "0", "0", "0", "0", "4">>, score |-> 0,
       student_answers |-> {}],
      [student_id |-> Absent, score |-> 150, student_answers |-> {}] }

Batches == SeqsUpTo(Entries, MaxBatch)

\* f"Student ID '{sid_str}' not registered in the system."
NotRegistered(sid_str) == <<"not registered", sid_str>>

\* An upsert that always inserts.
always_create(table, rid, quiz, student, score, answers) ==
    [table |-> table \cup {[id |-> rid, quiz |-> quiz, student |-> student,
                            score_obtained |-> score, student_answers |-> answers]},
     rid |-> rid + 1]

\* QuizResult.objects.update_or_create(quiz=quiz, student=student, defaults=...)
\* on the table `table` with next primary key `rid`.
update_or_create(table, rid, quiz, student, score, answers) ==
    LET same == {r \in table : r.quiz = quiz /\ r.student = student}
    IN  IF same # {}
        THEN [table |-> {IF r \in same
                         THEN [r EXCEPT !.score_obtained = score, !.student_answers = answers]
                         ELSE r : r \in table},
              rid |-> rid]
        ELSE [table |-> table \cup {[id |-> rid, quiz |-> quiz, student |-> student,
                                     score_obtained |-> score, student_answers |-> answers]},
              rid |-> rid + 1]

\* A pass that counts an entry as saved whether its student is found or not.
SaveEntryCountsAll(st, item, quiz) ==
    LET sid_str == item.student_id
        found == {s \in students : s.student_id = sid_str}
    IN  IF sid_str = Absent
        THEN st
        ELSE IF found = {}
        THEN [st EXCEPT !.errors = Append(@, NotRegistered(sid_str)),
                        !.saved_count = @ + 1]
        ELSE The({ [table |-> put.table, rid |-> put.rid,
                    saved_count |-> st.saved_count + 1, errors |-> st.errors]
                   : put \in {update_or_create(st.table, st.rid, quiz,
                                               (CHOOSE s \in found : TRUE).id,
                                               item.score, item.student_answers)} })

\* One pass of the loop over results_data (views.py 302-324) on `item`. `st`
\* holds the QuizResult table and the handler's locals.
SaveEntry(st, item, quiz) ==
    LET sid_str == item.student_id
        found == {s \in students : s.student_id = sid_str}
    IN  IF sid_str = Absent
        THEN st
        ELSE IF found = {}
        THEN [st EXCEPT !.errors = Append(@, NotRegistered(sid_str))]
        ELSE The({ [table |-> put.table, rid |-> put.rid,
                    saved_count |-> st.saved_count + 1, errors |-> st.errors]
                   : put \in {update_or_create(st.table, st.rid, quiz,
                                               (CHOOSE s \in found : TRUE).id,
                                               item.score, item.student_answers)} })

\* The loop over results_data (views.py 301), from entry i on.
RECURSIVE SaveEntries(_, _, _, _)
SaveEntries(results_data, i, quiz, st) ==
    IF i > Len(results_data) THEN st
    ELSE The({ SaveEntries(results_data, i + 1, quiz, after)
               : after \in {SaveEntry(st, results_data[i], quiz)} })

\* QuizViewSet.get_queryset: the quizzes of the classrooms the user teaches.
OwnQuiz(user, pk) == pk \in Quizzes /\ ClassroomTeacher[QuizClassroom[pk]] = user

\* POST /quizzes/{pk}/save_results/ (QuizViewSet.save_results).
save_results(user, pk, results_data) ==
    LET received == [op |-> "save_results", user |-> user, pk |-> pk]
        \* request.data is read once the quiz is found
        request == [op |-> "save_results", user |-> user, pk |-> pk,
                    results |-> results_data]
    IN  IF ~OwnQuiz(user, pk)
        THEN /\ last' = [request |-> received, status |-> 404]
             /\ UNCHANGED <<imports, saves, students, nextPk, roster, results, nextRid, stats>>
        ELSE \E done \in {SaveEntries(results_data, 1, pk,
                                [table |-> results, rid |-> nextRid,
                                 saved_count |-> 0, errors |-> <<>>])} :
                 /\ done.rid <= MaxRid + 1
                 /\ results' = done.table
                 /\ nextRid' = done.rid
                 /\ stats' = update_statistics(stats, done.table, pk)
                 /\ last' = [request |-> request, status |-> 200,
                             saved |-> done.saved_count, errors |-> done.errors]
                 /\ UNCHANGED <<imports, saves, students, nextPk, roster>>

\* ------------------------------------------------------------- admin site
\* admin.site.register(QuizResult): the add form of the admin. The form
\* rejects a (quiz, student) pair that has a row (unique_together); the stock
\* ModelAdmin saves the row and calls nothing of Quiz.
AdminResultAdd(quiz, student, score, answers) ==
    /\ nextRid <= MaxRid
    /\ \E s \in students : s.id = student
    /\ ~\E r \in results : r.quiz = quiz /\ r.student = student
    /\ results' = results \cup {[id |-> nextRid, quiz |-> quiz, student |-> student,
                                 score_obtained |-> score, student_answers |-> answers]}
    /\ nextRid' = nextRid + 1
    /\ last' = [request |-> [op |-> "admin_result_add", quiz |-> quiz, student |-> student],
                status |-> 302]
    /\ UNCHANGED <<imports, saves, students, nextPk, roster, stats>>

\* The delete view of the admin for a QuizResult row.
AdminResultDelete(rid) ==
    /\ \E r \in results : r.id = rid
    /\ results' = {r \in results : r.id # rid}
    /\ last' = [request |-> [op |-> "admin_result_delete", id |-> rid], status |-> 302]
    /\ UNCHANGED <<imports, saves, students, nextPk, roster, nextRid, stats>>

\* ------------------------------------------------------------- classroom roster
\* POST /classrooms/{pk}/copy_list/ (ClassroomViewSet.copy_list): the students
\* of the source classroom are added to the target's roster.
copy_list(user, pk, source_id) ==
    LET request == [op |-> "copy_list", user |-> user, pk |-> pk, source_id |-> source_id]
    IN  /\ UNCHANGED <<imports, saves, students, nextPk, results, nextRid, stats>>
        /\ IF ~OwnClassroom(user, pk)
           THEN /\ last' = [request |-> request, status |-> 404]
                /\ UNCHANGED roster
           ELSE IF source_id = 0
           THEN /\ last' = [request |-> request, status |-> 400]
                /\ UNCHANGED roster
           ELSE IF ~OwnClassroom(user, source_id)
           THEN /\ last' = [request |-> request, status |-> 404]
                /\ UNCHANGED roster
           ELSE IF roster[source_id] = {}
           THEN /\ last' = [request |-> request, status |-> 400]
                /\ UNCHANGED roster
           ELSE /\ roster' = [roster EXCEPT ![pk] = @ \cup roster[source_id]]
                /\ last' = [request |-> request, status |-> 200]

\* POST /classrooms/{pk}/remove_student/ (ClassroomViewSet.remove_student):
\* the student leaves the roster; the Student row and its QuizResult rows stay.
remove_student(user, pk, student_id) ==
    LET request == [op |-> "remove_student", user |-> user, pk |-> pk,
                    student_id |-> student_id]
    IN  /\ UNCHANGED <<imports, saves, students, nextPk, results, nextRid, stats>>
        /\ IF ~OwnClassroom(user, pk)
           THEN /\ last' = [request |-> request, status |-> 404]
                /\ UNCHANGED roster
           ELSE IF student_id = 0
           THEN /\ last' = [request |-> request, status |-> 400]
                /\ UNCHANGED roster
           ELSE IF ~\E s \in students : s.id = student_id
           THEN /\ last' = [request |-> request, status |-> 404]
                /\ UNCHANGED roster
           ELSE IF student_id \in roster[pk]
           THEN /\ roster' = [roster EXCEPT ![pk] = @ \ {student_id}]
                /\ last' = [request |-> request, status |-> 200]
           ELSE /\ last' = [request |-> request, status |-> 400]
                /\ UNCHANGED roster

\* ------------------------------------------------------------- quiz detail
\* A JSON value that may be null is held as a sequence of at most one
\* element: None is null.
None == <<>>

\* f"temp-{student.id}"
TempId(id) == <<"t", "e", "m", "p", "-">> \o Numeral(id)

\* The orders in which the database may return the rows of S for
\* order_by('name'): ascending by name, rows of one name in any order.
OrderByName(S) ==
    {sq \in [1..Cardinality(S) -> S] :
        \A i \in 1..Cardinality(S), j \in 1..Cardinality(S) :
            i < j => /\ sq[i] # sq[j]
                     /\ ~StrLess(sq[j].name, sq[i].name)}

\* The entry of get_results for a student with a result row (Case A).
TakenEntry(student, result) ==
    [id |-> result.id,
     student_name |-> student.name,
     student_id |-> student.student_id,
     score_obtained |-> <<result.score_obtained>>,
     date_taken |-> <<result.id>>]

\* The entry of get_results for a student with no result row.
PlaceholderEntry(student) ==
    [id |-> TempId(student.id),
     student_name |-> student.name,
     student_id |-> student.student_id,
     score_obtained |-> None,
     date_taken |-> None]

\* A merge that lists the students who took the quiz only.
get_results_taken_only(table, ros, rs, q) ==
    LET all_students == OrderByName({s \in table :
                            /\ s.id \in ros[QuizClassroom[q]]
                            /\ \E r \in ResultsOf(rs, q) : r.student = s.id})
        existing_results == ResultsOf(rs, q)
        entry(student) ==
            LET result == {r \in existing_results : r.student = student.id}
            IN  IF result # {} THEN TakenEntry(student, CHOOSE r \in result : TRUE)
                ELSE PlaceholderEntry(student)
    IN  {[i \in 1..Len(sq) |-> entry(sq[i])] : sq \in all_students}

\* QuizDetailSerializer.get_results on the quiz q: the lists it may return
\* (one for each order the database may give to students of one name).
get_results(table, ros, rs, q) ==
    LET all_students == OrderByName({s \in table : s.id \in ros[QuizClassroom[q]]})
        existing_results == ResultsOf(rs, q)
        entry(student) ==
            LET result == {r \in existing_results : r.student = student.id}
            IN  IF result # {} THEN TakenEntry(student, CHOOSE r \in result : TRUE)
                ELSE PlaceholderEntry(student)
    IN  {[i \in 1..Len(sq) |-> entry(sq[i])] : sq \in all_students}

\* details.get('correct') is True
is_true(v) == v = JTrue

\* x.isdigit()
isdigit(x) == IsNumeral(x)

\* a < b for the sort keys `int(x) if x.isdigit() else x` of two question
\* identifiers of one kind: integers by value, text by code point.
KeyLess(a, b) == IF isdigit(a) THEN ParseInt(a) < ParseInt(b) ELSE StrLess(a, b)

\* sorted(keys, key=lambda x: int(x) if x.isdigit() else x) raises TypeError
\* when it compares an int key with a str key: whenever keys of both kinds
\* are sorted together.
MixedKeys(keys) == (\E k \in keys : isdigit(k)) /\ (\E k \in keys : ~isdigit(k))

\* The lists sorted() may return for keys of one kind (keys of one sort key,
\* such as "1" and "01", keep the order of the dict).
SortedKeys(keys) ==
    {sq \in [1..Cardinality(keys) -> keys] :
        \A i \in 1..Cardinality(keys), j \in 1..Cardinality(keys) :
            i < j => /\ sq[i] # sq[j]
                     /\ ~KeyLess(sq[j], sq[i])}

\* round((count / total_respondents) * 100, 1), in tenths of a percent. No
\* quotient of the model lies halfway between two tenths.
Percentage(count, total_respondents) ==
    (2000 * count + total_respondents) \div (2 * total_respondents)

\* QuizDetailSerializer.get_item_analysis on the quiz q: the values it may
\* return; [error |-> TRUE] when sorted() raises.
get_item_analysis(rs, q) ==
    LET all_results == ResultsOf(rs, q)
        total_respondents == Cardinality(all_results)
        keys == UNION {{a.q : a \in r.student_answers} : r \in all_results}
        correct_counts == [k \in keys |->
            Cardinality({r \in all_results :
                \E a \in r.student_answers : a.q = k /\ is_true(a.correct)})]
        entry(q_num) ==
            [question |-> q_num,
             correct_count |-> correct_counts[q_num],
             total_respondents |-> total_respondents,
             percentage |-> Percentage(correct_counts[q_num], total_respondents)]
    IN  IF total_respondents = 0 THEN {[error |-> FALSE, data |-> <<>>]}
        ELSE IF MixedKeys(keys) THEN {[error |-> TRUE, data |-> <<>>]}
        ELSE {[error |-> FALSE, data |-> [i \in 1..Len(sq) |-> entry(sq[i])]]
                : sq \in SortedKeys(keys)}

\* GET /quizzes/{pk}/ (QuizViewSet.retrieve with QuizDetailSerializer): the
\* method fields are computed in the order of Meta.fields, results first; an
\* exception of get_item_analysis is answered with 500.
QuizRetrieve(user, pk) ==
    LET request == [op |-> "retrieve", user |-> user, pk |-> pk]
    IN  /\ UNCHANGED <<imports, saves, students, nextPk, roster, results, nextRid, stats>>
        /\ IF ~OwnQuiz(user, pk)
           THEN last' = [request |-> request, status |-> 404]
           ELSE \E res \in get_results(students, roster, results, pk),
                   ia \in get_item_analysis(results, pk) :
                    last' = [request |-> request,
                             status |-> IF ia.error THEN 500 ELSE 200,
                             results |-> res,
                             item_analysis |-> ia]

\* ------------------------------------------------------------- uploads, step by step
\* UploadStudentsView.post as the database sees it, for requests whose file
\* is valid and whose classroom is found. `with transaction.atomic()` opens a
\* transaction and takes no lock; each statement of a transaction reads the
\* committed rows and the transaction's own (READ COMMITTED). An INSERT whose
\* student_id another open transaction has inserted waits for that
\* transaction to end (unique=True on Student.student_id).

\* The rows worker p reads: the committed ones and its own.
Visible(p) == students \cup imports[p].pending

\* The worker moves on to the next row, or to the roster add after the last.
Advance(w) ==
    [w EXCEPT !.i = @ + 1, !.pc = IF w.i < Len(w.rows) THEN "get" ELSE "add"]

\* An exception leaves the atomic block: its inserts are rolled back.
Fail(w) == [w EXCEPT !.pc = "failed", !.pending = {}, !.inserted = {}]

\* The request arrives, the classroom is fetched and the file parsed.
Begin(p, rows) ==
    /\ imports[p].pc = "idle"
    /\ imports' = [imports EXCEPT ![p] = [Idle EXCEPT !.pc = "read_max", !.rows = rows]]
    /\ UNCHANGED <<saves, students, nextPk, roster, results, nextRid, stats, last>>

\* views.py 229-237: the last student_id of the prefix is read.
ReadMax(p) ==
    /\ imports[p].pc = "read_max"
    /\ \E start \in {StartSeq(Visible(p), YearPrefix)}, w \in {imports[p]} :
           imports' = [imports EXCEPT ![p] =
               IF start.error THEN Fail(w)
               ELSE [w EXCEPT !.start_seq = start.current_seq,
                              !.current_seq = start.current_seq,
                              !.i = 1,
                              !.pc = IF Len(w.rows) = 0 THEN "add" ELSE "get"]]
    /\ UNCHANGED <<saves, students, nextPk, roster, results, nextRid, stats, last>>

\* get_or_create, the first get(name=name).
Get(p) ==
    /\ imports[p].pc = "get"
    /\ LET w == imports[p]
           same == {s \in Visible(p) : s.name = Normalize(w.rows[w.i])}
       IN  imports' = [imports EXCEPT ![p] =
               IF Cardinality(same) = 1
               THEN Advance([w EXCEPT !.students_to_create =
                                          Append(@, (CHOOSE s \in same : TRUE).id)])
               ELSE IF Cardinality(same) > 1 THEN Fail(w)
               ELSE [w EXCEPT !.pc = "insert"]]
    /\ UNCHANGED <<saves, students, nextPk, roster, results, nextRid, stats, last>>

\* get_or_create, the create(): the INSERT of the new row.
Insert(p) ==
    /\ imports[p].pc = "insert"
    /\ LET w == imports[p]
           new_student_id == FormatId(YearPrefix, w.current_seq)
       IN  /\ \A q \in Importers \ {p} :
                  \A s \in imports[q].pending : s.student_id # new_student_id
           /\ IF \E s \in Visible(p) : s.student_id = new_student_id
              THEN /\ imports' = [imports EXCEPT ![p].pc = "reget"]
                   /\ UNCHANGED nextPk
              ELSE /\ nextPk <= MaxPk
                   /\ imports' = [imports EXCEPT ![p] =
                          Advance([w EXCEPT
                              !.pending = @ \cup {[id |-> nextPk,
                                                   student_id |-> new_student_id,
                                                   name |-> Normalize(w.rows[w.i])]},
                              !.inserted = @ \cup {w.current_seq},
                              !.current_seq = NextSeq(@, TRUE),
                              !.students_to_create = Append(@, nextPk)])]
                   /\ nextPk' = nextPk + 1
    /\ UNCHANGED <<saves, students, roster, results, nextRid, stats, last>>

\* get_or_create after IntegrityError: the second get(name=name); when it
\* finds no row the IntegrityError is raised again.
Reget(p) ==
    /\ imports[p].pc = "reget"
    /\ LET w == imports[p]
           same == {s \in Visible(p) : s.name = Normalize(w.rows[w.i])}
       IN  imports' = [imports EXCEPT ![p] =
               IF Cardinality(same) = 1
               THEN Advance([w EXCEPT !.students_to_create =
                                          Append(@, (CHOOSE s \in same : TRUE).id),
                                      !.current_seq = NextSeq(@, FALSE)])
               ELSE Fail(w)]
    /\ UNCHANGED <<saves, students, nextPk, roster, results, nextRid, stats, last>>

\* views.py 259 and the end of the atomic block: the roster add and the commit.
AddAndCommit(p) ==
    /\ imports[p].pc = "add"
    /\ students' = students \cup imports[p].pending
    /\ roster' = [roster EXCEPT ![1] =
                      @ \cup {imports[p].students_to_create[k] :
                                k \in 1..Len(imports[p].students_to_create)}]
    /\ imports' = [imports EXCEPT ![p].pc = "done", ![p].pending = {}]
    /\ UNCHANGED <<saves, nextPk, results, nextRid, stats, last>>

\* The response is sent; the worker is free for the next request.
Respond(p) ==
    /\ imports[p].pc \in {"done", "failed"}
    /\ imports' = [imports EXCEPT ![p] = Idle]
    /\ UNCHANGED <<saves, students, nextPk, roster, results, nextRid, stats, last>>

\* ------------------------------------------------------------- save_results, step by step
\* QuizViewSet.save_results as the database sees it, for requests whose quiz
\* is found. The view opens no transaction: every statement commits on its
\* own, and nothing orders the statements of two requests.

\* The entries of the requests served at the same time.
ConcurrentEntries ==
    { [student_id |-> <<"2", "6", "-", "2">>, score |-> 150, student_answers |-> {}],
      [student_id |-> <<"2", "6", "-", "2">>, score |-> 400, student_answers |-> {}] }

ConcurrentBatches == SeqsUpTo(ConcurrentEntries, MaxBatch)

\* A loop that returns without the call of update_statistics.
SaveAdvanceWithoutStatistics(w) ==
    [w EXCEPT !.i = @ + 1, !.pc = IF w.i < Len(w.results_data) THEN "entry" ELSE "done"]

\* The loop moves on to the next entry, or, after the last, to
\* quiz.update_statistics() (views.py 327).
SaveAdvance(w) ==
    [w EXCEPT !.i = @ + 1, !.pc = IF w.i < Len(w.results_data) THEN "entry" ELSE "exists"]

\* The request arrives: get_object() finds the quiz, the body is read.
SaveBegin(p, pk, results_data) ==
    /\ saves[p].pc = "idle"
    /\ pk \in Quizzes
    /\ saves' = [saves EXCEPT ![p] =
           [SaveIdle EXCEPT !.quiz = pk, !.results_data = results_data, !.i = 1,
                            !.pc = IF Len(results_data) = 0 THEN "exists" ELSE "entry"]]
    /\ UNCHANGED <<imports, students, nextPk, roster, results, nextRid, stats, last>>

\* One pass of the loop (views.py 302-324): the student is looked up and the
\* row upserted. update_or_create is atomic: of two upserts of one pair the
\* later one finds the row of the earlier.
SaveItem(p) ==
    /\ saves[p].pc = "entry"
    /\ \E w \in {saves[p]} :
         \E after \in {SaveEntry([table |-> results, rid |-> nextRid,
                                  saved_count |-> w.saved_count, errors |-> w.errors],
                                 w.results_data[w.i], w.quiz)} :
            /\ after.rid <= MaxRid + 1
            /\ results' = after.table
            /\ nextRid' = after.rid
            /\ saves' = [saves EXCEPT ![p] =
                   SaveAdvance([w EXCEPT !.saved_count = after.saved_count,
                                         !.errors = after.errors])]
    /\ UNCHANGED <<imports, students, nextPk, roster, stats, last>>

\* update_statistics is entered; results.exists() (models.py 108-109).
StatisticsExists(p) ==
    /\ saves[p].pc = "exists"
    /\ \E w \in {saves[p]} :
         saves' = [saves EXCEPT ![p] =
             [w EXCEPT !.stat_calls = @ + 1,
                       !.pc = IF ResultsOf(results, w.quiz) # {} THEN "scores" ELSE "save"]]
    /\ UNCHANGED <<imports, students, nextPk, roster, results, nextRid, stats, last>>

\* scores = [r.score_obtained for r in results] (models.py 110): the rows are
\* read again; max() of no score raises ValueError.
StatisticsScores(p) ==
    /\ saves[p].pc = "scores"
    /\ \E w \in {saves[p]} :
         saves' = [saves EXCEPT ![p] =
             IF ResultsOf(results, w.quiz) = {} THEN [w EXCEPT !.pc = "failed"]
             ELSE [w EXCEPT !.scores = ResultsOf(results, w.quiz), !.pc = "save"]]
    /\ UNCHANGED <<imports, students, nextPk, roster, results, nextRid, stats, last>>

\* self.save() (models.py 121): the fields computed from the scores read are
\* written to the Quiz row.
StatisticsSave(p) ==
    /\ saves[p].pc = "save"
    /\ stats' = [stats EXCEPT ![saves[p].quiz] = ComputeStatistics(saves[p].scores)]
    /\ saves' = [saves EXCEPT ![p].pc = "done"]
    /\ UNCHANGED <<imports, students, nextPk, roster, results, nextRid, last>>

\* The response is sent; the worker is free for the next request.
SaveRespond(p) ==
    /\ saves[p].pc \in {"done", "failed"}
    /\ saves' = [saves EXCEPT ![p] = SaveIdle]
    /\ UNCHANGED <<imports, students, nextPk, roster, results, nextRid, stats, last>>

\* ------------------------------------------------------------- specifications
StudentCreateStep == \E sid \in EndpointIds, name \in EndpointNames : StudentCreate(sid, name)

StudentDestroyStep == \E pk \in 1..MaxPk : StudentDestroy(pk)

\* A request that is rejected before its body is read is drawn with an empty
\* body: the handler's path does not depend on it.
UploadStep ==
    \E user \in Users, c \in ClassroomIds, ext \in Extensions :
        \E rows \in (IF ValidFile(ext) /\ OwnClassroom(user, c) THEN Files ELSE {<<>>}) :
            UploadStudents(user, c, ext, rows)

SaveResultsStep ==
    \E user \in Users, q \in Quizzes \cup {0} :
        \E b \in (IF OwnQuiz(user, q) THEN Batches ELSE {<<>>}) :
            save_results(user, q, b)

AdminResultAddStep ==
    \E q \in Quizzes, s \in 1..MaxPk, e \in Entries :
        AdminResultAdd(q, s, e.score, e.student_answers)

AdminResultDeleteStep == \E rid \in 1..MaxRid : AdminResultDelete(rid)

\* The roster side: the student endpoint and the importer.
NextRoster == StudentCreateStep \/ StudentDestroyStep \/ UploadStep

SpecRoster == Init /\ [][NextRoster]_vars

\* The grading side: the student endpoint, save_results and the admin.
NextQuiz ==
    \/ StudentCreateStep
    \/ StudentDestroyStep
    \/ SaveResultsStep
    \/ AdminResultAddStep
    \/ AdminResultDeleteStep

SpecQuiz == Init /\ [][NextQuiz]_vars

\* Uploads served at the same time by the workers.
NextUploads ==
    \E p \in Importers :
        \/ \E rows \in Files : Begin(p, rows)
        \/ ReadMax(p)
        \/ Get(p)
        \/ Insert(p)
        \/ Reget(p)
        \/ AddAndCommit(p)
        \/ Respond(p)

SpecUploads == Init /\ [][NextUploads]_vars

\* The entries of the gradings of imported students.
RosterEntries ==
    { [student_id |-> FormatId(YearPrefix, 1), score |-> 150, student_answers |-> {}],
      [student_id |-> FormatId(YearPrefix, 2), score |-> 400, student_answers |-> {}] }

RosterBatches == SeqsUpTo(RosterEntries, MaxBatch)

\* The answer maps of the graded sheets: question identifier -> record.
AnswerMaps ==
    { {},
      {[q |-> <<"2">>, correct |-> JTrue], [q |-> <<"1", "0">>, correct |-> JFalse]},
      {[q |-> <<"1", "0">>, correct |-> JTrue]},
      {[q |-> <<"a">>, correct |-> JStringTrue], [q |-> <<"b">>, correct |-> JTrue]},
      {[q |-> <<"b">>, correct |-> JMissing], [q |-> <<"B">>, correct |-> JTrue]} }

AnswerEntries ==
    { [student_id |-> sid, score |-> 150, student_answers |-> m] :
        sid \in EndpointIds, m \in AnswerMaps }

\* The sheets are graded one request at a time.
AnswerBatches == {<<e>> : e \in AnswerEntries}

\* The files of the imports of a classroom.
RosterFiles ==
    { << <<"b", " ", "a">> >>,
      << <<"a", " ", "b">> >>,
      << <<"b", " ", "a">>, <<"A", " ", "B", " ">> >> }

ImportStep == \E rows \in RosterFiles : UploadStudents("t1", 1, ".csv", rows)

CopyListStep ==
    \E user \in Users, pk \in ClassroomPks, source_id \in SourceIds :
        copy_list(user, pk, source_id)

RemoveStudentStep ==
    \E user \in Users, pk \in ClassroomPks, student_id \in 0..MaxPk :
        remove_student(user, pk, student_id)

SaveRosterResultsStep == \E b \in RosterBatches : save_results("t1", 1, b)

SaveAnswersStep == \E b \in AnswerBatches : save_results("t1", 1, b)

QuizRetrieveStep == \E user \in Users, q \in Quizzes \cup {0} : QuizRetrieve(user, q)

\* The classroom side: import, copy and removal, grading, the quiz detail.
NextClassroom ==
    \/ ImportStep
    \/ CopyListStep
    \/ RemoveStudentStep
    \/ SaveRosterResultsStep
    \/ QuizRetrieveStep

SpecClassroom == Init /\ [][NextClassroom]_vars

\* The item analysis: students, graded sheets with answers, the quiz detail.
NextAnalysis ==
    \/ StudentCreateStep
    \/ SaveAnswersStep
    \/ QuizRetrieveStep

SpecAnalysis == Init /\ [][NextAnalysis]_vars

\* save_results calls served at the same time by the workers.
NextSaves ==
    \/ StudentCreateStep
    \/ \E p \in Savers :
        \/ \E b \in ConcurrentBatches : SaveBegin(p, 1, b)
        \/ SaveItem(p)
        \/ StatisticsExists(p)
        \/ StatisticsScores(p)
        \/ StatisticsSave(p)
        \/ SaveRespond(p)

SpecSaves == Init /\ [][NextSaves]_vars

Next == NextRoster \/ NextQuiz \/ NextClassroom \/ NextAnalysis

Spec == Init /\ [][Next]_vars

\* ------------------------------------------------------------- properties
\* C1: two uploads served at the same time never allocate the same sequence
\* number: the numbers of the rows they insert are disjoint, and no upload
\* goes on from a number the other has consumed.
C1_NoSharedSequence ==
    \A p \in Importers, q \in Importers :
        p # q =>
            /\ imports[p].inserted \cap imports[q].inserted = {}
            /\ imports[p].pc \in {"get", "insert", "reget"} =>
                   imports[p].current_seq \notin imports[q].inserted

\* The last request was a save_results call that returned its response.
SavedResults == last.request.op = "save_results" /\ last.status = 200

\* The last request was an upload whose rows were read (the file was valid and
\* the classroom found).
ReadRows(l) == l.request.op = "upload" /\ l.reason \in {"ok", "exception"}

\* The Student rows of `table` whose student_id is `sid`.
Registered(table, sid) == {s \in table : s.student_id = sid}

\* C2: every quiz's cached statistics are the statistics of its current
\* result rows, whatever operations have completed (save_results, deletion of
\* a student, the admin's add and delete of a result).
C2_CacheCoherent ==
    \A q \in Quizzes : stats[q] = ComputeStatistics(ResultsOf(results, q))

\* C3: there is at most one QuizResult row per (quiz, student) pair, and after
\* a save_results call every pair the batch saved has exactly one row, whose
\* score and answers are those of the last entry of the batch for that pair.
C3_OneResultPerPair ==
    /\ \A r1 \in results, r2 \in results :
           (r1.quiz = r2.quiz /\ r1.student = r2.student) => r1 = r2
    /\ SavedResults =>
           LET b == last.request.results
               q == last.request.pk
           IN  \A i \in 1..Len(b) : \A s \in Registered(students, b[i].student_id) :
                   LET j == CHOOSE k \in 1..Len(b) :
                                /\ b[k].student_id = b[i].student_id
                                /\ \A m \in 1..Len(b) :
                                       b[m].student_id = b[i].student_id => m <= k
                       rows == {r \in results : r.quiz = q /\ r.student = s.id}
                   IN  /\ Cardinality(rows) = 1
                       /\ \A r \in rows : /\ r.score_obtained = b[j].score
                                          /\ r.student_answers = b[j].student_answers

\* A batch named one registered student twice, with different scores, and
\* both entries were saved.
C3_Witness ==
    /\ SavedResults
    /\ Len(last.request.results) = 2
    /\ last.request.results[1].student_id = last.request.results[2].student_id
    /\ last.request.results[1].score # last.request.results[2].score
    /\ last.saved = 2
    /\ Cardinality(results) = 1

\* The student_id values of the entries of `b` that are given and match no
\* Student of `table`, in input order.
UnregisteredIds(b, table) ==
    SelectSeq([i \in 1..Len(b) |-> b[i].student_id],
              LAMBDA sid : sid # Absent /\ Registered(table, sid) = {})

\* C4: save_results is partial-success. An entry whose given student_id
\* matches no Student adds exactly one error string, in input order, and
\* creates or changes no QuizResult; processing goes on: every entry with a
\* registered student_id is upserted, and `saved` is the number of entries
\* whose student_id is registered.
C4_PartialSuccess ==
    [][ (last'.request.op = "save_results" /\ last'.status = 200) =>
            LET b == last'.request.results
                q == last'.request.pk
                unregistered == UnregisteredIds(b, students)
                named == {s.id : s \in {t \in students :
                                          \E i \in 1..Len(b) : b[i].student_id = t.student_id}}
            IN  /\ last'.errors = [k \in 1..Len(unregistered) |-> NotRegistered(unregistered[k])]
                /\ last'.saved =
                       Cardinality({i \in 1..Len(b) : Registered(students, b[i].student_id) # {}})
                /\ \A r \in results : r.student \notin named => r \in results'
                /\ \A r \in results' : r.student \notin named => r \in results
                /\ \A id \in named : \E r \in results' : r.quiz = q /\ r.student = id
      ]_vars

\* A batch whose first entry names an unregistered student and whose second
\* entry names a registered one was answered with saved = 1 and one error.
C4_Witness ==
    /\ SavedResults
    /\ Len(last.request.results) = 2
    /\ last.request.results[1].student_id # Absent
    /\ Registered(students, last.request.results[1].student_id) = {}
    /\ Registered(students, last.request.results[2].student_id) # {}
    /\ last.saved = 1
    /\ Len(last.errors) = 1

\* C5: every entry of a batch is accounted for in the response: saved plus
\* the number of error strings is the number of entries.
C5_EveryEntryAccounted ==
    SavedResults => last.saved + Len(last.errors) = Len(last.request.results)

\* C6: what update_statistics stores. With no result rows mean, min, max and
\* the attendee count are 0; otherwise the count is the number of rows, min
\* and max bound every score and are attained, and mean times the count is
\* the sum of the scores.
C6_Statistics ==
    SavedResults =>
        LET rs == ResultsOf(results, last.request.pk)
            st == stats[last.request.pk]
        IN  IF rs = {}
            THEN /\ st.mean_score.num = 0
                 /\ st.min_score = 0
                 /\ st.max_score = 0
                 /\ st.attendees_count = 0
            ELSE /\ st.attendees_count = Cardinality(rs)
                 /\ \A r \in rs : st.min_score <= r.score_obtained
                                  /\ r.score_obtained <= st.max_score
                 /\ \E r \in rs : r.score_obtained = st.min_score
                 /\ \E r \in rs : r.score_obtained = st.max_score
                 /\ st.mean_score.num * st.attendees_count = SumOf(rs) * st.mean_score.den

\* update_statistics ran on two result rows with different scores.
C6_Witness ==
    /\ SavedResults
    /\ Cardinality(ResultsOf(results, last.request.pk)) = 2
    /\ stats[last.request.pk].min_score < stats[last.request.pk].max_score

\* The normalized names of the rows of a file, row by row.
NamesOf(rows) == [i \in 1..Len(rows) |-> Title(Strip(Str(rows[i])))]

\* The row at which a name first appears in a file.
FirstRow(names, n) == CHOOSE i \in 1..Len(names) : names[i] = n /\ \A k \in 1..(i - 1) : names[k] # n

\* The numerically highest sequence number among the student_id values of
\* `table` that start with "<prefix>-" (0 when there is none).
HighestSeq(table, year_prefix) ==
    LET seqs == {ParseInt(Split(s.student_id, <<>>)[2]) :
                    s \in {t \in table : StartsWith(t.student_id, year_prefix \o <<"-">>)}}
    IN  IF seqs = {} THEN 0 ELSE CHOOSE m \in seqs : \A n \in seqs : n <= m

\* C7: an import deduplicates by normalized name. Rows of equal normalized
\* name resolve to one Student; the Students created are one per distinct
\* normalized name of the file that the table did not hold; and they get the
\* consecutive identifiers from the import's initial sequence number on, in
\* order of first appearance.
C7_DedupByNormalizedName ==
    [][ ReadRows(last') =>
            LET names == NamesOf(last'.request.rows)
                fresh == {names[i] : i \in 1..Len(names)} \ {s.name : s \in students}
                start == StartSeq(students, YearPrefix).current_seq
                rank(n) == Cardinality({m \in fresh : FirstRow(names, m) < FirstRow(names, n)})
            IN  /\ \A i \in 1..Len(names) :
                       Cardinality({s \in students' : s.name = names[i]}) = 1
                /\ Cardinality(students' \ students) = Cardinality(fresh)
                /\ \A n \in fresh : \E s \in students' \ students :
                       /\ s.name = n
                       /\ s.student_id = FormatId(YearPrefix, start + rank(n))
      ]_vars

\* C8: an import starts from the numerically highest sequence number of the
\* identifiers of its year prefix, plus 1 (from 1 when there is none),
\* whatever the table holds.
C8_StartsAfterHighest ==
    [][ (ReadRows(last') /\ last'.status = 200) =>
            last'.start_seq = HighestSeq(students, YearPrefix) + 1
      ]_vars

\* C9: an import leaves the Students it finds as they are, and its counter
\* advances only on a creation: the identifiers it allocates are the
\* consecutive ones from its starting number, with no gap.
C9_ReuseLeavesStudents ==
    [][ last'.request.op = "upload" =>
            /\ \A s \in students : s \in students'
            /\ last'.status = 200 =>
                   /\ last'.current_seq = last'.start_seq + Len(last'.created)
                   /\ Len(last'.created) = Cardinality(students' \ students)
                   /\ \A k \in 1..Len(last'.created) :
                          \E s \in students' \ students :
                              /\ s.id = last'.created[k]
                              /\ s.student_id = FormatId(YearPrefix, last'.start_seq + k - 1)
      ]_vars

\* An import created a Student and reused one: more rows were resolved than
\* Students created.
C9_Witness ==
    /\ ReadRows(last)
    /\ last.status = 200
    /\ Len(last.created) = 1
    /\ Len(last.students_to_create) = 2
    /\ last.students_to_create[1] # last.students_to_create[2]
    /\ Cardinality(students) = 2

\* C10: a row whose name is missing neither aborts the import nor produces a
\* Student: the rows with a name are resolved and enrolled, and every Student
\* the import creates carries the name of a row that has one.
C10_MissingNameSkipped ==
    [][ (ReadRows(last') /\ \E i \in 1..Len(last'.request.rows) : last'.request.rows[i] = NaN) =>
            LET rows == last'.request.rows
                valid == {NamesOf(rows)[i] : i \in {k \in 1..Len(rows) : rows[k] # NaN}}
            IN  /\ \A n \in valid : \E s \in students' :
                       s.name = n /\ s.id \in roster'[last'.request.classroom_id]
                /\ \A s \in students' \ students : s.name \in valid
      ]_vars

\* C11: a rejected or failed import mutates nothing. When the file's extension
\* is not recognized, the classroom is not found for the requesting teacher,
\* or a row raises (also after earlier rows created Students), the Student
\* table and every roster are after the request as they were before it.
C11_FailedImportMutatesNothing ==
    [][ (last'.request.op = "upload" /\ last'.status # 200) =>
            /\ students' = students
            /\ roster' = roster
      ]_vars

\* An import failed on its second row after its first row had created a
\* Student inside the atomic block.
C11_Witness ==
    /\ ReadRows(last)
    /\ last.reason = "exception"
    /\ Len(last.request.rows) = 2
    /\ \E t \in {ImportTransaction(students, nextPk, YearPrefix, last.request.rows)} :
           t.error /\ t.table # students

\* The last request was a quiz detail whose method fields were computed.
Retrieved == last.request.op = "retrieve" /\ last.status # 404

\* C12: get_results is a roster-aligned merge. It emits one entry per student
\* enrolled in the quiz's classroom, in ascending order of name; the entry of
\* a student with a QuizResult of the quiz carries that row's id and score,
\* the entry of any other student is a placeholder with id "temp-<student.id>",
\* a null score and a null date; the number of entries is the roster size.
C12_RosterAlignedMerge ==
    Retrieved =>
        LET q == last.request.pk
            out == last.results
            enrolled == {s \in students : s.id \in roster[QuizClassroom[q]]}
        IN  /\ Len(out) = Cardinality(roster[QuizClassroom[q]])
            /\ \A s \in enrolled :
                   Cardinality({i \in 1..Len(out) : out[i].student_id = s.student_id}) = 1
            /\ \A i \in 1..Len(out), j \in 1..Len(out) :
                   i < j => ~StrLess(out[j].student_name, out[i].student_name)
            /\ \A i \in 1..Len(out) : \E s \in enrolled :
                   /\ out[i].student_id = s.student_id
                   /\ out[i].student_name = s.name
                   /\ LET rows == {r \in results : r.quiz = q /\ r.student = s.id}
                      IN  IF rows # {}
                          THEN /\ out[i].score_obtained # <<>>
                               /\ \E r \in rows : /\ out[i].id = r.id
                                                  /\ out[i].score_obtained = <<r.score_obtained>>
                          ELSE /\ out[i].score_obtained = <<>>
                               /\ out[i].date_taken = <<>>
                               /\ out[i].id = <<"t", "e", "m", "p", "-">> \o Numeral(s.id)

\* The detail of a quiz listed two enrolled students: first, by name, the one
\* created second, with a stored result; then the one created first, as a
\* placeholder.
C12_Witness ==
    /\ Retrieved
    /\ Len(last.results) = 2
    /\ last.results[1].score_obtained # <<>>
    /\ last.results[2].score_obtained = <<>>
    /\ last.results[2].id = <<"t", "e", "m", "p", "-", "1">>

\* The question identifiers of the answer maps of the result rows rs.
QuestionsOf(rs) == UNION {{a.q : a \in r.student_answers} : r \in rs}

\* C13: get_item_analysis emits one entry for every question identifier of
\* any result's answer map; correct_count is the number of results whose
\* record for the question has correct true; total_respondents is the number
\* of results of the quiz, in every entry; so correct_count is at most
\* total_respondents, and the list is empty when the quiz has no result.
C13_ItemAnalysisCounts ==
    Retrieved =>
        LET rs == ResultsOf(results, last.request.pk)
            data == last.item_analysis.data
        IN  /\ \A k \in QuestionsOf(rs) :
                   Cardinality({i \in 1..Len(data) : data[i].question = k}) = 1
            /\ \A i \in 1..Len(data) :
                   /\ data[i].question \in QuestionsOf(rs)
                   /\ data[i].correct_count =
                          Cardinality({r \in rs : \E a \in r.student_answers :
                                          a.q = data[i].question /\ a.correct = JTrue})
                   /\ data[i].total_respondents = Cardinality(rs)
                   /\ data[i].correct_count <= data[i].total_respondents
            /\ rs = {} => data = <<>>

\* C14: get_item_analysis returns, for every set of question identifiers, an
\* ordered list without failing: identifiers that are integers in ascending
\* order of value, other identifiers in ascending lexical order; sets that
\* mix the two kinds included.
C14_SortRobustToMixedKeys ==
    Retrieved =>
        LET data == last.item_analysis.data
        IN  /\ ~last.item_analysis.error
            /\ \A i \in 1..Len(data), j \in 1..Len(data) :
                   i < j =>
                       /\ (IsNumeral(data[i].question) /\ IsNumeral(data[j].question)) =>
                              ParseInt(data[i].question) <= ParseInt(data[j].question)
                       /\ (~IsNumeral(data[i].question) /\ ~IsNumeral(data[j].question)) =>
                              ~StrLess(data[j].question, data[i].question)

\* C15: two save_results calls on one quiz served at the same time are
\* conflict-free: once the calls have completed, the quiz's cached statistics
\* are the statistics of the stored result rows.
C15_ConflictFree ==
    (\A p \in Savers : saves[p].pc \in {"idle", "done"}) =>
        \A q \in Quizzes : stats[q] = ComputeStatistics(ResultsOf(results, q))

\* C16: a save_results call invokes update_statistics exactly once, after the
\* last entry of its batch: never while entries remain, never twice, and once
\* too when the batch is empty or every entry fails.
C16_StatisticsOncePerCall ==
    \A p \in Savers :
        /\ saves[p].pc = "entry" => saves[p].stat_calls = 0
        /\ saves[p].pc \in {"scores", "save", "done", "failed"} => saves[p].stat_calls = 1
        /\ saves[p].pc = "exists" =>
               /\ saves[p].stat_calls = 0
               /\ saves[p].i > Len(saves[p].results_data)

\* A call whose two entries both failed has completed, with one call of
\* update_statistics.
C16_Witness ==
    \E p \in Savers :
        /\ saves[p].pc = "done"
        /\ Len(saves[p].results_data) = 2
        /\ saves[p].saved_count = 0
        /\ Len(saves[p].errors) = 2
        /\ saves[p].stat_calls = 1

\* C17: every stored QuizResult of a quiz belongs to a student enrolled in
\* the quiz's classroom, so the entries of get_results that are no
\* placeholders are as many as the quiz's attendees_count.
C17_ResultsOfEnrolled ==
    /\ \A r \in results : r.student \in roster[QuizClassroom[r.quiz]]
    /\ Retrieved =>
           Cardinality({i \in 1..Len(last.results) : last.results[i].score_obtained # <<>>})
               = stats[last.request.pk].attendees_count

====
